---- MODULE Spec2Model ----
(***************************************************************************)
(* State-machine model of the snake game component in src/src/app.rs:      *)
(* the yew component App, its State, and the handlers create, rendered,    *)
(* update, start, tick, animate, game_over, keydown, bite, set_highscore   *)
(* and the food placement generate_apple.                                  *)
(***************************************************************************)
EXTENDS Integers, Sequences, FiniteSets, TLC

(***************************************************************************)
(* Bounds of the exploration (not program constants).                      *)
(***************************************************************************)
\* Coords::random draws floor(random()*25) on each axis. A draw of 0 or 24
\* is at distance 0, a draw k from the spawn head's cell on is at distance
\* k - SpawnDraw; the pairs explored are those whose distances sum to at most
\* MaxDraw.
MaxDraw == 2
\* Direction keys are delivered while the session has made at most
\* MaxKeySteps steps, or once the game is over.
MaxKeySteps == 3
\* Restart messages acted on.
MaxRestarts == 1
\* Apples eaten, over all sessions.
MaxEats == 2
\* The high score found in storage by create is drawn from 0..MaxStored.
MaxStored == 1

(***************************************************************************)
(* Geometry: Coords, coords(), Coords::add, f64::abs.                      *)
(***************************************************************************)
coords(x, y) == [x |-> x, y |-> y]

add(a, b) == coords(a.x + b.x, a.y + b.y)

Abs(v) == IF v < 0 THEN -v ELSE v

Directions == {"Left", "Right", "Up", "Down"}

\* the cell of the spawn head, 200 / 20
SpawnDraw == 10

AllDraws(n) == 0 .. (n - 1)

\* the draws explored, and the distance of each
BoundedDraws(n) == {k \in AllDraws(n) : k = 0 \/ k = n - 1 \/ SpawnDraw <= k}

DrawDistance(k, n) == IF k = 0 \/ k = n - 1 THEN 0 ELSE k - SpawnDraw

\* Coords::random(multi, multi2): floor(random() * multi / multi2) * multi2 on
\* each axis, random() in [0, 1): every value the call can return.
randomAll(multi, multi2) ==
    {coords(i * multi2, j * multi2) : i \in AllDraws(multi \div multi2), j \in AllDraws(multi \div multi2)}

\* the values of Coords::random explored
random(multi, multi2) ==
    LET n == multi \div multi2
        pairs == {p \in BoundedDraws(n) \X BoundedDraws(n) :
                    DrawDistance(p[1], n) + DrawDistance(p[2], n) <= MaxDraw}
    IN  {coords(p[1] * multi2, p[2] * multi2) : p \in pairs}

\* snake.iter().find(|pos| pos.x == apple.x && pos.y == apple.y)
OnSnake(apple_, snake_) == \E i \in 1 .. Len(snake_) : snake_[i].x = apple_.x /\ snake_[i].y = apple_.y

AppleOutside(apple_) ==
    Abs(apple_.x) > 460 \/ Abs(apple_.y) > 460 \/ apple_.x < 20 \/ apple_.y < 20

\* let apple = Coords::random(500, 20): every value, and the values explored
AppleDrawsAll == randomAll(500, 20)

AppleDraws == random(500, 20)

\* generate_apple without its test against the snake
generate_apple_NoSnakeTest(snake_) == {apple_ \in AppleDraws : ~AppleOutside(apple_)}

\* generate_apple: the values the recursion can return, a candidate that
\* passes both of its tests (any other candidate is redrawn).
generate_apple(snake_) ==
    {apple_ \in AppleDraws : ~OnSnake(apple_, snake_) /\ ~AppleOutside(apple_)}

\* generate_apple has no base case other than an accepted candidate: when no
\* value of Coords::random passes both tests the recursion never returns.
NeverReturns(snake_) ==
    \A apple_ \in AppleDrawsAll : OnSnake(apple_, snake_) \/ AppleOutside(apple_)

(***************************************************************************)
(* State: the fields of State (snake, high_score, velocity,                *)
(* accepting_inputs, apple, score) and of App (ctx, job, keyboard_service, *)
(* the stored high score).  status is "hung" once a handler has entered a  *)
(* call that never returns.  calls lists the food placements returned      *)
(* during the last handler; steps, restarts and eats count for the bounds.  *)
(***************************************************************************)
VARIABLES snake, high_score, velocity, accepting_inputs, apple, score,
          ctx, job, keyboard_service, storage, status, calls, steps, restarts, eats

vars == <<snake, high_score, velocity, accepting_inputs, apple, score,
          ctx, job, keyboard_service, storage, status, calls, steps, restarts, eats>>

\* the mutable fields a handler works on, as one record
Self ==
    [snake |-> snake, high_score |-> high_score, velocity |-> velocity,
     accepting_inputs |-> accepting_inputs, apple |-> apple, score |-> score,
     job |-> job, keyboard_service |-> keyboard_service, storage |-> storage,
     status |-> status, calls |-> <<>>]

Apply(t) ==
    /\ snake' = t.snake
    /\ high_score' = t.high_score
    /\ velocity' = t.velocity
    /\ accepting_inputs' = t.accepting_inputs
    /\ apple' = t.apple
    /\ score' = t.score
    /\ job' = t.job
    /\ keyboard_service' = t.keyboard_service
    /\ storage' = t.storage
    /\ status' = t.status
    /\ calls' = t.calls

\* State.snake as built by App::create
CreateSnake == <<coords(200, 200), coords(180, 200), coords(160, 200), coords(140, 200)>>

\* State.snake as built by App::start
StartSnake ==
    <<coords(200, 200), coords(180, 200), coords(160, 200), coords(140, 200), coords(120, 200)>>

\* the velocity of App::start with the delta of its direction, Left
StartVelocity_Leftward == [coords |-> coords(-20, 0), direction |-> "Left"]

\* State.velocity as built by App::create and App::start
StartVelocity == [coords |-> coords(20, 0), direction |-> "Left"]

(***************************************************************************)
(* The handlers, as functions of the fields.                               *)
(***************************************************************************)
\* App::bite with a loop that stops before the last segment
bite_SkipsLast(s) ==
    LET head == s.snake[1]
    IN  \E i \in 2 .. (Len(s.snake) - 1) : s.snake[i].x = head.x /\ s.snake[i].y = head.y

\* App::bite: the head against every other segment
bite(s) ==
    LET head == s.snake[1]
    IN  \E i \in 2 .. Len(s.snake) : s.snake[i].x = head.x /\ s.snake[i].y = head.y

\* App::game_over without its test snake[0].x < 20
game_over_NoLowerX(s) ==
    \/ Abs(s.snake[1].x) > 460
    \/ Abs(s.snake[1].y) > 460
    \/ s.snake[1].y < 20
    \/ bite(s)

\* App::game_over without its test of x against the upper bound
game_over_NoUpperX(s) ==
    \/ Abs(s.snake[1].y) > 460
    \/ s.snake[1].x < 20
    \/ s.snake[1].y < 20
    \/ bite(s)

\* App::game_over
game_over(s) ==
    \/ Abs(s.snake[1].x) > 460
    \/ Abs(s.snake[1].y) > 460
    \/ s.snake[1].x < 20
    \/ s.snake[1].y < 20
    \/ bite(s)

\* App::set_highscore without its comparison
set_highscore_Always(s) == [s EXCEPT !.high_score = s.score, !.storage = s.score]

\* App::set_highscore
set_highscore(s) ==
    IF s.high_score < s.score
    THEN [s EXCEPT !.high_score = s.score, !.storage = s.score]
    ELSE s

\* the snake after the splice of App::animate
Spliced(s) == <<add(s.snake[1], s.velocity.coords)>> \o s.snake

\* the test of App::animate: the new head is on the apple
Eats(s) == Spliced(s)[1].x = s.apple.x /\ Spliced(s)[1].y = s.apple.y

\* what the generate_apple call of App::animate can return (when animate
\* makes no call, or one that never returns, the apple stays)
Placements(s) ==
    IF Eats(s) /\ ~NeverReturns(Spliced(s)) THEN generate_apple(Spliced(s)) ELSE {s.apple}

\* App::animate without the pop of its else branch
animate_KeepsTail(s, na) ==
    IF Eats(s)
    THEN IF NeverReturns(Spliced(s))
         THEN [s EXCEPT !.snake = Spliced(s), !.score = @ + 1, !.status = "hung"]
         ELSE [s EXCEPT !.snake = Spliced(s), !.score = @ + 1, !.apple = na,
                        !.calls = Append(@, [snake |-> Spliced(s), apple |-> na])]
    ELSE [s EXCEPT !.snake = Spliced(s)]

\* App::animate without self.apple = new_apple in its eating branch
animate_KeepsApple(s, na) ==
    IF Eats(s)
    THEN IF NeverReturns(Spliced(s))
         THEN [s EXCEPT !.snake = Spliced(s), !.score = @ + 1, !.status = "hung"]
         ELSE [s EXCEPT !.snake = Spliced(s), !.score = @ + 1,
                        !.calls = Append(@, [snake |-> Spliced(s), apple |-> na])]
    ELSE [s EXCEPT !.snake = SubSeq(Spliced(s), 1, Len(s.snake))]

\* App::animate, na the value its generate_apple call returns
animate(s, na) ==
    IF Eats(s)
    THEN IF NeverReturns(Spliced(s))
         THEN [s EXCEPT !.snake = Spliced(s), !.score = @ + 1, !.status = "hung"]
         ELSE [s EXCEPT !.snake = Spliced(s), !.score = @ + 1, !.apple = na,
                        !.calls = Append(@, [snake |-> Spliced(s), apple |-> na])]
    ELSE [s EXCEPT !.snake = SubSeq(Spliced(s), 1, Len(s.snake))]

\* App::tick with accepting_inputs = true moved into its not-over branch
tick_ReopensOnlyWhenRunning(s, na) ==
    LET a == animate(s, na)
    IN  IF a.status = "hung" THEN a
        ELSE IF ~game_over(a) THEN [a EXCEPT !.accepting_inputs = TRUE]
        ELSE set_highscore([a EXCEPT !.job = FALSE])

\* App::tick without self.job = None in its game-over branch
tick_KeepsTimer(s, na) ==
    LET a == animate(s, na)
        b == [a EXCEPT !.accepting_inputs = TRUE]
    IN  IF a.status = "hung" THEN a
        ELSE IF ~game_over(a) THEN b
        ELSE set_highscore(b)

\* App::tick
tick(s, na) ==
    LET a == animate(s, na)
        b == [a EXCEPT !.accepting_inputs = TRUE]
    IN  IF a.status = "hung" THEN a
        ELSE IF ~game_over(a) THEN b
        ELSE set_highscore([b EXCEPT !.job = FALSE])

\* App::start up to its call of tick, a0 the value generate_apple returns
Spawned(s, a0) ==
    [s EXCEPT !.snake = StartSnake, !.velocity = StartVelocity, !.apple = a0,
              !.calls = Append(@, [snake |-> StartSnake, apple |-> a0])]

\* App::start without its call of tick
start_NoStep(s, a0, na) ==
    [Spawned(s, a0) EXCEPT !.job = TRUE, !.keyboard_service = TRUE]

\* App::start
start(s, a0, na) ==
    LET t == tick(Spawned(s, a0), na)
    IN  IF t.status = "hung" THEN t
        ELSE [t EXCEPT !.job = TRUE, !.keyboard_service = TRUE]

\* the match of App::keydown with arms that take a turn from any other
\* direction, the opposite one included
KeydownMatch_Reversing(msg, direction) ==
    CASE msg = "Left" /\ direction # "Left" -> <<-20, 0, "Left">>
      [] msg = "Right" /\ direction # "Right" -> <<20, 0, "Right">>
      [] msg = "Up" /\ direction # "Up" -> <<0, -20, "Up">>
      [] msg = "Down" /\ direction # "Down" -> <<0, 20, "Down">>
      [] OTHER -> <<>>

\* the match of App::keydown: <<x, y, dir>>, or <<>> for the arm that returns
KeydownMatch(msg, direction) ==
    CASE msg = "Left" /\ direction \in {"Up", "Down"} -> <<-20, 0, "Left">>
      [] msg = "Right" /\ direction \in {"Up", "Down"} -> <<20, 0, "Right">>
      [] msg = "Up" /\ direction \in {"Left", "Right"} -> <<0, -20, "Up">>
      [] msg = "Down" /\ direction \in {"Left", "Right"} -> <<0, 20, "Down">>
      [] OTHER -> <<>>

\* App::keydown that also moves the snake once it has taken a turn
keydown_Animates(s, msg) ==
    LET m == KeydownMatch(msg, s.velocity.direction)
    IN  IF ~s.accepting_inputs THEN s
        ELSE IF m = <<>> THEN s
        ELSE [s EXCEPT !.velocity = [coords |-> coords(m[1], m[2]), direction |-> m[3]],
                       !.accepting_inputs = FALSE,
                       !.snake = <<add(s.snake[1], coords(m[1], m[2]))>>
                                   \o SubSeq(s.snake, 1, Len(s.snake) - 1)]

\* App::keydown without its first test, of accepting_inputs
keydown_IgnoresLock(s, msg) ==
    LET m == KeydownMatch(msg, s.velocity.direction)
    IN  IF m = <<>> THEN s
        ELSE [s EXCEPT !.velocity = [coords |-> coords(m[1], m[2]), direction |-> m[3]],
                       !.accepting_inputs = FALSE]

\* App::keydown without its last assignment, accepting_inputs = false
keydown_NoLock(s, msg) ==
    LET m == KeydownMatch(msg, s.velocity.direction)
    IN  IF ~s.accepting_inputs THEN s
        ELSE IF m = <<>> THEN s
        ELSE [s EXCEPT !.velocity = [coords |-> coords(m[1], m[2]), direction |-> m[3]]]

\* App::keydown
keydown(s, msg) ==
    LET m == KeydownMatch(msg, s.velocity.direction)
    IN  IF ~s.accepting_inputs THEN s
        ELSE IF m = <<>> THEN s
        ELSE [s EXCEPT !.velocity = [coords |-> coords(m[1], m[2]), direction |-> m[3]],
                       !.accepting_inputs = FALSE]

\* App::update without the guard of its Restart arm
update_RestartUnguarded(s, msg, a0, na) ==
    CASE msg = "Tick" -> tick(s, na)
      [] msg \in Directions -> keydown(s, msg)
      [] msg = "Restart" -> start(s, a0, na)
      [] OTHER -> s

\* App::update
update(s, msg, a0, na) ==
    CASE msg = "Tick" -> tick(s, na)
      [] msg \in Directions -> keydown(s, msg)
      [] msg = "Restart" /\ game_over(s) -> start(s, a0, na)
      [] OTHER -> s

(***************************************************************************)
(* The key listener of make_keyboard_service.  A key name is the sequence  *)
(* of its characters; the callback strips every "Arrow" from it and        *)
(* matches what is left.                                                   *)
(***************************************************************************)
\* str::replace: every non-overlapping match of from, left to right
RECURSIVE replace(_, _, _)
replace(s, from, to) ==
    IF Len(s) < Len(from) THEN s
    ELSE IF SubSeq(s, 1, Len(from)) = from
         THEN to \o replace(SubSeq(s, Len(from) + 1, Len(s)), from, to)
         ELSE <<s[1]>> \o replace(Tail(s), from, to)

\* the key names delivered: the arrows (current and legacy names), the
\* letters and the space the callback knows, and keys it does not know
Keys ==
    { <<"A", "r", "r", "o", "w", "L", "e", "f", "t">>,
      <<"A", "r", "r", "o", "w", "R", "i", "g", "h", "t">>,
      <<"A", "r", "r", "o", "w", "U", "p">>,
      <<"A", "r", "r", "o", "w", "D", "o", "w", "n">>,
      <<"L", "e", "f", "t">>, <<"D", "o", "w", "n">>,
      <<"a">>, <<"d">>, <<"w">>, <<"s">>, <<"r">>, <<" ">>,
      <<"A">>, <<"R">>, <<"x">>, <<"E", "n", "t", "e", "r">>,
      <<"E", "s", "c", "a", "p", "e">>, <<"S", "h", "i", "f", "t">> }

\* the callback without the replace of "Arrow"
KeyMsg_NoArrowStrip(key) ==
    CASE key \in {<<"L", "e", "f", "t">>, <<"a">>} -> "Left"
      [] key \in {<<"R", "i", "g", "h", "t">>, <<"d">>} -> "Right"
      [] key \in {<<"U", "p">>, <<"w">>} -> "Up"
      [] key \in {<<"D", "o", "w", "n">>, <<"s">>} -> "Down"
      [] key \in {<<"r">>, <<" ">>} -> "Restart"
      [] OTHER -> "None"

\* the callback: the message sent for a key
KeyMsg(key) ==
    LET k == replace(key, <<"A", "r", "r", "o", "w">>, <<>>)
    IN  CASE k \in {<<"L", "e", "f", "t">>, <<"a">>} -> "Left"
          [] k \in {<<"R", "i", "g", "h", "t">>, <<"d">>} -> "Right"
          [] k \in {<<"U", "p">>, <<"w">>} -> "Up"
          [] k \in {<<"D", "o", "w", "n">>, <<"s">>} -> "Down"
          [] k \in {<<"r">>, <<" ">>} -> "Restart"
          [] OTHER -> "None"

\* the message of every key, and the messages the listener can send
KeyMsgOf == [key \in Keys |-> KeyMsg(key)]

KeyMsgs == {KeyMsgOf[key] : key \in Keys}

(***************************************************************************)
(* Init: the App built by create, before the first render.                 *)
(***************************************************************************)
Init ==
    /\ storage \in 0 .. MaxStored
    /\ high_score = storage
    /\ snake = CreateSnake
    /\ velocity = StartVelocity
    /\ accepting_inputs = TRUE
    /\ score = 0
    /\ apple = coords(0, 0)
    /\ ctx = FALSE
    /\ job = FALSE
    /\ keyboard_service = FALSE
    /\ status = "ok"
    /\ calls = <<>>
    /\ steps = 0
    /\ restarts = 0
    /\ eats = 0

(***************************************************************************)
(* Actions: the first render, and one message delivered to update.         *)
(***************************************************************************)
\* the count of apples eaten, after a handler that takes s to t
Eaten(s, t) == eats' = eats + (t.score - s.score)

\* Component::rendered with ctx == None
Rendered ==
    /\ status = "ok"
    /\ ctx = FALSE
    /\ ctx' = TRUE
    /\ \E a0 \in generate_apple(StartSnake) :
         /\ Eats(Spawned(Self, a0)) => eats < MaxEats
         /\ \E na \in Placements(Spawned(Self, a0)) :
              LET t == start(Self, a0, na) IN Apply(t) /\ Eaten(Self, t)
    /\ steps' = 1
    /\ UNCHANGED restarts

\* the interval task delivers Msg::Tick
Tick ==
    /\ status = "ok"
    /\ job
    /\ Eats(Self) => eats < MaxEats
    /\ \E na \in Placements(Self) :
         LET t == update(Self, "Tick", apple, na) IN Apply(t) /\ Eaten(Self, t)
    /\ steps' = steps + 1
    /\ UNCHANGED <<ctx, restarts>>

\* the key listener delivers Msg::Left, Right, Up or Down
Key ==
    /\ status = "ok"
    /\ keyboard_service
    /\ steps <= MaxKeySteps \/ game_over(Self)
    /\ \E msg \in KeyMsgs \cap Directions :
         LET t == update(Self, msg, apple, apple) IN Apply(t)
    /\ UNCHANGED <<ctx, steps, restarts, eats>>

\* the key listener delivers Msg::Restart while the game is over
Restart ==
    /\ status = "ok"
    /\ keyboard_service
    /\ "Restart" \in KeyMsgs
    /\ game_over(Self)
    /\ restarts < MaxRestarts
    /\ \E a0 \in generate_apple(StartSnake) :
         /\ Eats(Spawned(Self, a0)) => eats < MaxEats
         /\ \E na \in Placements(Spawned(Self, a0)) :
              LET t == update(Self, "Restart", a0, na) IN Apply(t) /\ Eaten(Self, t)
    /\ steps' = 1
    /\ restarts' = restarts + 1
    /\ UNCHANGED ctx

\* the key listener delivers Msg::Restart while the game is running
RestartRunning ==
    /\ status = "ok"
    /\ keyboard_service
    /\ "Restart" \in KeyMsgs
    /\ ~game_over(Self)
    /\ LET t == update(Self, "Restart", apple, apple) IN Apply(t)
    /\ UNCHANGED <<ctx, steps, restarts, eats>>

\* the key listener delivers Msg::None (any other key)
NoneKey ==
    /\ status = "ok"
    /\ keyboard_service
    /\ "None" \in KeyMsgs
    /\ LET t == update(Self, "None", apple, apple) IN Apply(t)
    /\ UNCHANGED <<ctx, steps, restarts, eats>>

Next == Rendered \/ Tick \/ Key \/ Restart \/ RestartRunning \/ NoneKey

Spec == Init /\ [][Next]_vars

(***************************************************************************)
(* A session that has filled the play area but for one cell.  The play     *)
(* area is the 23 x 23 cells 20..460; FullPath runs tail to head along     *)
(* row 1 from column 3, down and up the columns 23..3, then up the         *)
(* columns 1 and 2 in turns, and ends at column 2 of row 1: 528 cells, a   *)
(* closed circuit (its last cell is next to its first) that leaves out the *)
(* corner (20, 20), where the apple is.  The snake got there by following  *)
(* the circuit and eating what generate_apple placed on it.                *)
(***************************************************************************)
FullPath(k) ==
    IF k <= 21 THEN <<k + 2, 1>>
    ELSE IF k <= 483
         THEN LET c == 23 - ((k - 22) \div 22)
                  t == ((k - 22) % 22) + 1
              IN  <<c, IF c % 2 = 1 THEN t + 1 ELSE 24 - t>>
    ELSE IF k <= 527
         THEN LET r == 23 - ((k - 484) \div 2)
                  first == (k - 484) % 2 = 0
              IN  <<IF (r % 2 = 1) = first THEN 2 ELSE 1, r>>
    ELSE <<2, 1>>

FullSnake == [i \in 1 .. 528 |-> coords(20 * FullPath(529 - i)[1], 20 * FullPath(529 - i)[2])]

InitFull ==
    /\ storage \in 0 .. MaxStored
    /\ high_score = storage
    /\ snake = FullSnake
    /\ velocity = [coords |-> coords(0, -20), direction |-> "Up"]
    /\ accepting_inputs = TRUE
    /\ score = Len(FullSnake) - Len(StartSnake)
    /\ apple = coords(20, 20)
    /\ ctx = TRUE
    /\ job = TRUE
    /\ keyboard_service = TRUE
    /\ status = "ok"
    /\ calls = <<>>
    /\ steps = 0
    /\ restarts = 0
    /\ eats = 0

NextFull == Tick \/ Key \/ Restart \/ RestartRunning \/ NoneKey

SpecFull == InitFull /\ [][NextFull]_vars

\* sanity of FullSnake: consecutive segments are neighbours, all are distinct
\* cells of the play area, and the head is next to the tail and to the apple
FullSnakeOk ==
    /\ \A i \in 1 .. 527 :
         Abs(FullSnake[i].x - FullSnake[i + 1].x) + Abs(FullSnake[i].y - FullSnake[i + 1].y) = 20
    /\ Cardinality({FullSnake[i] : i \in 1 .. 528}) = 528
    /\ \A i \in 1 .. 528 : ~AppleOutside(FullSnake[i])
    /\ Abs(FullSnake[1].x - FullSnake[528].x) + Abs(FullSnake[1].y - FullSnake[528].y) = 20
    /\ FullSnake[1] = coords(40, 20)
    /\ FullSnake[2] = coords(40, 40)
    /\ ~OnSnake(coords(20, 20), FullSnake)

(***************************************************************************)
(* Claims.                                                                 *)
(***************************************************************************)
\* the delta that App::keydown pairs with each direction
CanonicalDelta(direction) ==
    CASE direction = "Left" -> coords(-20, 0)
      [] direction = "Right" -> coords(20, 0)
      [] direction = "Up" -> coords(0, -20)
      [] direction = "Down" -> coords(0, 20)

\* C1: in every reachable state the velocity delta is the canonical delta of
\* the velocity direction: Left (-20,0), Right (20,0), Up (0,-20), Down (0,20).
C1_DeltaAgreesWithDirection == velocity.coords = CanonicalDelta(velocity.direction)

\* the kinds of step, told by what they count: a timer tick, and a start
\* (from the first render or from a Restart)
TickStep == ctx /\ steps' = steps + 1 /\ restarts' = restarts

RestartStep == restarts' = restarts + 1

StartStep == ctx' # ctx \/ RestartStep

\* StartSnake after the first step of a session, when it eats nothing
SteppedStartSnake ==
    <<coords(220, 200), coords(200, 200), coords(180, 200), coords(160, 200), coords(140, 200)>>

\* C2: a Restart processed while the game is over yields the spawn velocity,
\* a high score no lower than before and, unless the first step of the new
\* session has already eaten, the spawn body (moved by that step) and score 0.
C2_RestartResets ==
    [][RestartStep =>
         /\ velocity' = StartVelocity
         /\ high_score' >= high_score
         /\ Len(snake') = Len(StartSnake) => (snake' = SteppedStartSnake /\ score' = 0)]_vars

\* C3: growth law. A step whose new head is on the apple grows the body by
\* exactly 1 and the score by exactly 1; any other step leaves the length of
\* the body and the score unchanged. A Tick steps the current snake against
\* the current apple; the step inside start steps StartSnake against the
\* apple start has just placed (the first of calls').
C3_GrowthLaw ==
    [][/\ TickStep =>
            IF add(snake[1], velocity.coords) = apple
            THEN Len(snake') = Len(snake) + 1 /\ score' = score + 1
            ELSE Len(snake') = Len(snake) /\ score' = score
       /\ StartStep =>
            IF add(StartSnake[1], StartVelocity.coords) = calls'[1].apple
            THEN Len(snake') = Len(StartSnake) + 1 /\ score' = score + 1
            ELSE Len(snake') = Len(StartSnake) /\ score' = score]_vars

\* a timer tick has just eaten: the body passed to generate_apple is the
\* grown snake, one longer than the spawn body
C3_Witness ==
    /\ steps > 1
    /\ Len(calls) = 1
    /\ calls[1].snake = snake
    /\ Len(snake) = Len(StartSnake) + 1
    /\ score = 1

\* the head is outside the inclusive play bounds [20, 460] on some axis
HeadOutsidePlay ==
    ~(20 <= snake[1].x /\ snake[1].x <= 460 /\ 20 <= snake[1].y /\ snake[1].y <= 460)

\* the head is where another segment is
HeadOnBody == \E i \in 2 .. Len(snake) : snake[i] = snake[1]

\* C4: after every step (in every state from the first start on) the game is
\* over, as game_over computes it and as tick acted on it by dropping the
\* timer, if and only if the head is outside [20, 460] on either axis or on
\* another body segment.
C4_GameOverIff ==
    /\ game_over(Self) <=> (HeadOutsidePlay \/ HeadOnBody)
    /\ ctx => (~job <=> (HeadOutsidePlay \/ HeadOnBody))

\* a step has put the head one cell outside the lower bound, at x = 0, with
\* no bite, and the game is over
C4_Witness == ctx /\ snake[1].x = 0 /\ ~HeadOnBody /\ ~job /\ game_over(Self)

\* C5: every food position returned by generate_apple is grid-aligned, lies
\* inside [20, 460] on both axes and is on no segment of the body passed in;
\* the body passed at start is StartSnake, the body passed on a consumption
\* is the updated body with the new head, and the apple of the state is the
\* last position returned.
C5_FoodPlacement ==
    /\ \A k \in 1 .. Len(calls) :
         /\ calls[k].apple.x % 20 = 0 /\ calls[k].apple.y % 20 = 0
         /\ 20 <= calls[k].apple.x /\ calls[k].apple.x <= 460
         /\ 20 <= calls[k].apple.y /\ calls[k].apple.y <= 460
         /\ \A i \in 1 .. Len(calls[k].snake) : calls[k].snake[i] # calls[k].apple
    /\ calls # <<>> =>
         /\ apple = calls[Len(calls)].apple
         /\ IF steps = 1 THEN calls[1].snake = StartSnake ELSE Len(calls) = 1
         /\ (steps > 1 \/ Len(calls) = 2) =>
              /\ calls[Len(calls)].snake = snake
              /\ Len(snake) > Len(StartSnake)

\* a start whose first apple lay in front of the head: the first step ate
\* it, and a second apple was placed against the grown body
C5_Witness ==
    /\ Len(calls) = 2
    /\ calls[1].snake = StartSnake
    /\ calls[1].apple = coords(220, 200)
    /\ calls[2].snake = snake
    /\ snake[1] = coords(220, 200)
    /\ apple = calls[2].apple

\* C6: when the snake occupies every cell of the play area, so that no
\* position can be placed, the food placement has ended (the handler is not
\* stuck in it) and the step that called it has ended in game over, the
\* timer dropped.
C6_BoardFullEndsInGameOver == NeverReturns(snake) => (status = "ok" /\ ~job)

\* no two segments of the snake are at the same position
SegmentsDistinct == \A i, j \in 1 .. Len(snake) : i # j => snake[i] # snake[j]

\* C7: in every reachable state that is not game-over all segments are at
\* pairwise distinct positions; whenever two segments coincide the state is
\* game-over and the timer has been dropped.
C7_DistinctUnlessGameOver ==
    /\ ~game_over(Self) => SegmentsDistinct
    /\ ~SegmentsDistinct => (game_over(Self) /\ ~job)

\* the head has run into the body inside the play area: two segments
\* coincide and the game is over
C7_Witness == ~SegmentsDistinct /\ ~HeadOutsidePlay /\ game_over(Self) /\ ~job

\* a transition between two steps: a message other than a tick or a start
BetweenSteps == steps' = steps /\ restarts' = restarts /\ ctx' = ctx

Horizontal(d) == d \in {"Left", "Right"}

Perpendicular(d, e) == Horizontal(d) # Horizontal(e)

\* C8: between two consecutive steps at most one turn request changes the
\* velocity. A perpendicular request that arrives while accepting_inputs is
\* true sets the velocity to the requested direction and its delta and sets
\* accepting_inputs to false; the velocity changes in no other way between
\* steps, and once accepting_inputs is false it stays false, and the
\* velocity unchanged, until the next step.
C8_OneTurnPerStep ==
    /\ [](\A d \in Directions :
            (accepting_inputs /\ Perpendicular(d, velocity.direction)) =>
                /\ keydown(Self, d).velocity = [coords |-> CanonicalDelta(d), direction |-> d]
                /\ ~keydown(Self, d).accepting_inputs)
    /\ [][BetweenSteps =>
            /\ velocity' # velocity =>
                 /\ accepting_inputs /\ ~accepting_inputs'
                 /\ Perpendicular(velocity'.direction, velocity.direction)
                 /\ velocity'.coords = CanonicalDelta(velocity'.direction)
            /\ ~accepting_inputs => (~accepting_inputs' /\ velocity' = velocity)]_vars

\* a turn has been taken since the last step and the window is closed: the
\* velocity is no longer the displacement of the last step
C8_Witness ==
    /\ ctx
    /\ ~accepting_inputs
    /\ job
    /\ velocity.coords # coords(snake[1].x - snake[2].x, snake[1].y - snake[2].y)

Opposite(d) ==
    CASE d = "Left" -> "Right"
      [] d = "Right" -> "Left"
      [] d = "Up" -> "Down"
      [] d = "Down" -> "Up"

\* C9: a turn request for the current direction or for its opposite changes
\* neither the velocity (delta and direction) nor accepting_inputs, in any
\* state and whatever accepting_inputs is; no other field changes either.
C9_SameOrOppositeIgnored ==
    \A d \in {velocity.direction, Opposite(velocity.direction)} :
        /\ keydown(Self, d).velocity = velocity
        /\ keydown(Self, d).accepting_inputs = accepting_inputs
        /\ update(Self, d, apple, apple) = Self

\* a running game after a turn, the window open again: only the match of
\* keydown stands between a request for the opposite direction and a
\* reversal
C9_Witness ==
    /\ ctx /\ job
    /\ accepting_inputs
    /\ velocity.direction = "Up"
    /\ velocity.coords = coords(snake[1].x - snake[2].x, snake[1].y - snake[2].y)

\* the displacement of the head in the last step, and in the step before
LastMove == coords(snake[1].x - snake[2].x, snake[1].y - snake[2].y)

MoveBefore == coords(snake[2].x - snake[3].x, snake[2].y - snake[3].y)

\* C10: the snake never reverses. The displacement applied to the head in a
\* step is never the negation of the displacement of the step before (for
\* the first step of a session: of the lay of the spawn body), so no step
\* moves the head onto the segment directly behind it.
C10_NeverReverses ==
    /\ ~(LastMove.x = -MoveBefore.x /\ LastMove.y = -MoveBefore.y)
    /\ snake[1] # snake[3]

\* the snake has turned a corner: the last step was perpendicular to the one
\* before, both made in this session
C10_Witness ==
    /\ ctx /\ steps >= 3
    /\ LastMove.x # 0 /\ MoveBefore.x = 0 /\ MoveBefore.y # 0

\* C11: once a step results in game-over the timer is cancelled and no
\* further step happens until a Restart: in a game-over state every message
\* but an acted-on Restart leaves snake, apple and score unchanged and the
\* timer cancelled. A start (first render or Restart) finds no timer armed
\* and arms one, so at most one is ever armed; in every state after the
\* first start the timer is armed exactly when the state is not game-over.
C11_TimerFollowsGameOver ==
    /\ [](ctx => (job <=> ~game_over(Self)))
    /\ [][(game_over(Self) /\ ~RestartStep) =>
            (snake' = snake /\ apple' = apple /\ score' = score /\ ~job')]_vars
    /\ [][StartStep => (~job /\ job' /\ ~game_over(Self)')]_vars

\* a Restart has been acted on after a game over: the game runs again and
\* the timer is armed
C11_Witness == restarts = 1 /\ job /\ ~game_over(Self) /\ steps = 1

\* the apples start can place
StartApples == generate_apple(StartSnake)

\* C12: a Restart message is acted on only when the state is game-over. In
\* a state that is not game-over, update leaves every field (snake,
\* velocity, apple, score, high_score, accepting_inputs, the timer, the
\* stored high score) as it is, whatever generate_apple would have returned.
C12_RestartIgnoredWhileRunning ==
    ~game_over(Self) => \A a0 \in StartApples : update(Self, "Restart", a0, a0) = Self

\* a running game that a start would visibly reset: it has turned, moved
\* and eaten
C12_Witness ==
    /\ ctx /\ job /\ ~game_over(Self)
    /\ steps >= 3
    /\ score >= 1
    /\ velocity # StartVelocity

\* C13: when a step results in game-over the high score is updated, and
\* stored, if and only if score > high_score, so that afterwards high_score
\* is the larger of its previous value and score; the high score never
\* decreases, and it and the stored value change in no other transition.
C13_HighScore ==
    [][/\ high_score' >= high_score
       /\ (TickStep /\ game_over(Self)') =>
            /\ high_score' = IF score' > high_score THEN score' ELSE high_score
            /\ storage' = IF score' > high_score THEN score' ELSE storage
       /\ ~(TickStep /\ game_over(Self)') =>
            (high_score' = high_score /\ storage' = storage)]_vars

\* a game has ended with a score above the high score, which has been
\* raised to it and stored
C13_Witness ==
    /\ ctx /\ ~job /\ game_over(Self)
    /\ score = 2
    /\ high_score = 2
    /\ storage = 2

\* C14: a direction-key event, accepted or rejected, changes neither the
\* snake body, the apple, the score nor the high score (nor the timer or the
\* stored high score); it can only change velocity and accepting_inputs.
C14_KeysTouchOnlyVelocity ==
    \A d \in Directions :
        [update(Self, d, apple, apple) EXCEPT !.velocity = velocity,
                                               !.accepting_inputs = accepting_inputs] = Self

\* a Down key has been accepted right after start: the velocity has turned
\* and the window is closed, the snake is where the first step left it
C14_Witness ==
    /\ ctx /\ steps = 1
    /\ ~accepting_inputs
    /\ velocity = [coords |-> coords(0, 20), direction |-> "Down"]
    /\ snake = SteppedStartSnake
    /\ score = 0

C16_WindowKeptOnGameOver ==
    [][((TickStep \/ StartStep) /\ game_over(Self)') =>
         accepting_inputs' = accepting_inputs]_vars

\* C16, amended: a step sets accepting_inputs to true whether or not the
\* resulting state is game-over; a step that results in game-over re-opens
\* the turn window too.
C16_WindowReopenedByEveryStep ==
    [][(TickStep \/ StartStep) => accepting_inputs']_vars

\* the game is over by a step that followed an accepted turn (the window
\* was closed before that step), and the window is open
C16_Witness ==
    /\ ctx /\ ~job /\ game_over(Self)
    /\ accepting_inputs
    /\ velocity.coords = LastMove
    /\ LastMove # MoveBefore

\* C17: entering the running state (first render or restart) finds no timer
\* armed, performs exactly one step on the freshly spawned snake (the head
\* of StartSnake moved once by StartVelocity, the spawned segments behind
\* it, one of them dropped unless the apple was eaten), that step is never
\* game over whatever apple was drawn, and the timer is armed afterwards.
C17_StartStepsOnceThenArms ==
    [][StartStep =>
         /\ ~job
         /\ calls'[1].snake = StartSnake
         /\ snake'[1] = add(StartSnake[1], StartVelocity.coords)
         /\ \/ snake' = <<snake'[1]>> \o SubSeq(StartSnake, 1, Len(StartSnake) - 1)
            \/ snake' = <<snake'[1]>> \o StartSnake /\ calls'[1].apple = snake'[1]
         /\ ~game_over(Self)'
         /\ job' /\ keyboard_service'
         /\ status' = "ok"]_vars

\* the first start drew the apple right in front of the head: the immediate
\* step ate it, the game is running and the timer is armed
C17_Witness ==
    /\ ctx /\ restarts = 0 /\ steps = 1
    /\ Len(calls) = 2 /\ calls[1].apple = coords(220, 200)
    /\ Len(snake) = Len(StartSnake) + 1
    /\ job /\ ~game_over(Self)

\* the keys the listener does not know
UnknownKeys == {key \in Keys : KeyMsgOf[key] = "None"}

\* C18: a key the listener does not know is sent as None, and update
\* ignores None in every state: the whole App (snake, velocity, apple,
\* score, high_score, accepting_inputs, job, storage) is left as it was and
\* nothing fails; each arrow key and its letter (a, d, w, s) are sent as the
\* same one of the four directions.
C18_UnknownKeysIgnored ==
    /\ \A key \in UnknownKeys : update(Self, KeyMsgOf[key], apple, apple) = Self
    /\ status = "ok"
    /\ KeyMsgOf[<<"A", "r", "r", "o", "w", "L", "e", "f", "t">>] = "Left"
    /\ KeyMsgOf[<<"a">>] = "Left"
    /\ KeyMsgOf[<<"A", "r", "r", "o", "w", "R", "i", "g", "h", "t">>] = "Right"
    /\ KeyMsgOf[<<"d">>] = "Right"
    /\ KeyMsgOf[<<"A", "r", "r", "o", "w", "U", "p">>] = "Up"
    /\ KeyMsgOf[<<"w">>] = "Up"
    /\ KeyMsgOf[<<"A", "r", "r", "o", "w", "D", "o", "w", "n">>] = "Down"
    /\ KeyMsgOf[<<"s">>] = "Down"

\* unknown keys exist and the listener is registered, in a running game
\* with the turn window closed and in a game that is over
C18_Witness ==
    /\ <<"E", "n", "t", "e", "r">> \in UnknownKeys /\ <<"A">> \in UnknownKeys
    /\ keyboard_service /\ restarts = 1
    /\ \/ job /\ ~accepting_inputs /\ steps = 2
       \/ ~job /\ game_over(Self) /\ score > 0

\* C19: in every state after start (the first render has run) the apple is
\* on no segment of the snake: a head that reaches the apple eats it within
\* the same step, and the apple placed instead is off the updated body.
C19_AppleOffSnake == ctx => ~OnSnake(apple, snake)

\* two apples have been eaten, and the third lies next to the head of the
\* grown snake while the game runs
C19_Witness ==
    /\ ctx /\ job /\ ~game_over(Self)
    /\ Len(snake) = Len(StartSnake) + 2
    /\ Abs(apple.x - snake[1].x) + Abs(apple.y - snake[1].y) = 20
    /\ ~OnSnake(apple, snake)

\* C20: while no turn has been accepted since the last start or restart
\* (the velocity is still the one start stored: every accepted turn stores
\* a delta with its own direction, which StartVelocity is not), the head
\* has advanced one cell along the spawn row per step, the immediate step
\* of start included; the game is over exactly on the 14th step, when the
\* head has left the play bounds at x = 480; no step follows it, and the
\* timer is armed exactly before that step.
C20_StraightRunEndsAtStep14 ==
    (ctx /\ velocity = StartVelocity) =>
        /\ snake[1] = coords(StartSnake[1].x + 20 * steps, StartSnake[1].y)
        /\ steps <= 14
        /\ game_over(Self) <=> steps = 14
        /\ job <=> steps < 14

\* a restarted session ran straight into the wall: 14 steps, the head at
\* x = 480, the timer dropped
C20_Witness ==
    /\ ctx /\ restarts = 1 /\ velocity = StartVelocity
    /\ steps = 14 /\ snake[1] = coords(480, 200)
    /\ game_over(Self) /\ ~job

====
